---- MODULE Spec2Model ----
(***************************************************************************)
(* A model of src/scraper.py: the seminar scraper's text helpers           *)
(* (parse_date_prefix, split_speaker_and_title,                            *)
(* parse_german_or_english_date), the two page scrapers                    *)
(* (scrape_typo3_series, parse_imfs_block / scrape_imfs) and the           *)
(* aggregation in main.                                                    *)
(*                                                                         *)
(* A Python str is a sequence of characters; a character is a one-letter   *)
(* string, and the characters outside ASCII have names: "nbsp" (U+00A0),   *)
(* "endash" (U+2013), "ldquo" (U+201C), "rdquo" (U+201D), "bdquo"          *)
(* (U+201E), "auml" "ouml" "uuml" "Auml" "Ouml" "Uuml".                    *)
(* An Optional value is <<>> (None) or <<v>>.                              *)
(***************************************************************************)
EXTENDS Naturals, Integers, Sequences, FiniteSets

VARIABLES
  pc,             \* position of the function under way
  text,           \* the str argument of a text helper
  result,         \* what the helper returned
  lines,          \* scrape_typo3_series: lines; parse_imfs_block: lines
  tags,           \* scrape_imfs: the tags heading.find_all_next() has yielded
  current_title,  \* scrape_imfs: current_title
  current_lines,  \* scrape_imfs: current_lines
  events,         \* the events list of the function under way
  passed,         \* scrape_imfs: the (series_name, lines) of every parse_imfs_block call
  today,          \* main: today
  cfg,            \* scrape_typo3_series: url, series, default_time, default_location
  n               \* the number of pieces the input text was put together from

vars == <<pc, text, result, lines, tags, current_title, current_lines, events, passed, today, cfg, n>>

(***************************************************************************)
(* Bounds of the model.                                                    *)
(***************************************************************************)
MaxAtoms == 5
MaxRows == 4
MaxBlockLines == 4
MaxTags == 5
MaxEvents == 3

(***************************************************************************)
(* Python's str methods, on sequences of characters.  A definition's       *)
(* intermediate values are the parameters of the definition that follows   *)
(* it, in the order the code computes them.                                *)
(***************************************************************************)
None == <<>>
Some(v) == <<v>>
\* a if it is not None, else b
OrElse(a, b) == IF a # None THEN a ELSE b

Digits == <<"0", "1", "2", "3", "4", "5", "6", "7", "8", "9">>
UpperAlpha == <<"A", "B", "C", "D", "E", "F", "G", "H", "I", "J", "K", "L", "M",
                "N", "O", "P", "Q", "R", "S", "T", "U", "V", "W", "X", "Y", "Z",
                "Auml", "Ouml", "Uuml">>
LowerAlpha == <<"a", "b", "c", "d", "e", "f", "g", "h", "i", "j", "k", "l", "m",
                "n", "o", "p", "q", "r", "s", "t", "u", "v", "w", "x", "y", "z",
                "auml", "ouml", "uuml">>
DigitSet == {"0", "1", "2", "3", "4", "5", "6", "7", "8", "9"}
UpperSet == {UpperAlpha[i] : i \in 1..29}
LowerSet == {LowerAlpha[i] : i \in 1..29}
Letters == UpperSet \cup LowerSet
Spaces == {" ", "nbsp"}

Range(s) == {s[i] : i \in 1..Len(s)}
IsDigit(c) == c \in DigitSet
DigitVal(c) == (CHOOSE i \in 1..10 : Digits[i] = c) - 1

Lower(c) == IF c \in UpperSet THEN LowerAlpha[CHOOSE i \in 1..29 : UpperAlpha[i] = c] ELSE c
Upper(c) == IF c \in LowerSet THEN UpperAlpha[CHOOSE i \in 1..29 : LowerAlpha[i] = c] ELSE c
LowerStr(s) == [i \in 1..Len(s) |-> Lower(s[i])]
UpperStr(s) == [i \in 1..Len(s) |-> Upper(s[i])]

\* s.replace(a, b) for single characters a, b
ReplaceChar(s, a, b) == [i \in 1..Len(s) |-> IF s[i] = a THEN b ELSE s[i]]

\* sub in s
Contains(s, sub) ==
  \E i \in 0..(Len(s) - Len(sub)) : SubSeq(s, i + 1, i + Len(sub)) = sub
StartsWith(s, pre) == Len(pre) <= Len(s) /\ SubSeq(s, 1, Len(pre)) = pre
HasChar(s, c) == \E i \in 1..Len(s) : s[i] = c

\* the least element of a non-empty set of numbers, and the greatest
Min(S) == CHOOSE i \in S : \A j \in S : i <= j
Max(S) == CHOOSE i \in S : \A j \in S : i >= j
\* the least element of S that is at least p, 0 if there is none
FirstFrom(S, p) == IF \E k \in S : k >= p THEN Min({k \in S : k >= p}) ELSE 0

\* the first index >= p of s whose character is not in cs, Len(s) + 1 if none
SkipWhile(s, p, cs) ==
  IF \E i \in p..Len(s) : s[i] \notin cs
  THEN Min({i \in p..Len(s) : s[i] \notin cs}) ELSE Len(s) + 1
\* the first index >= p of s whose character is in cs, Len(s) + 1 if none
SkipUntil(s, p, cs) ==
  IF \E i \in p..Len(s) : s[i] \in cs
  THEN Min({i \in p..Len(s) : s[i] \in cs}) ELSE Len(s) + 1
\* the last index of s whose character is not in cs, 0 if none
LastNotIn(s, cs) ==
  IF \E i \in 1..Len(s) : s[i] \notin cs
  THEN Max({i \in 1..Len(s) : s[i] \notin cs}) ELSE 0

\* s.lstrip(chars), s.rstrip(chars), s.strip(chars); strip() strips whitespace
LStripChars(s, cs) == SubSeq(s, SkipWhile(s, 1, cs), Len(s))
RStripChars(s, cs) == SubSeq(s, 1, LastNotIn(s, cs))
StripChars(s, cs) == RStripChars(LStripChars(s, cs), cs)
Strip(s) == StripChars(s, Spaces)

\* s.split(): the maximal runs of characters that are not whitespace
RECURSIVE Split(_)
SplitAt(t, e) == <<SubSeq(t, 1, e - 1)>> \o Split(SubSeq(t, e, Len(t)))
SplitStripped(t) == IF t = <<>> THEN <<>> ELSE SplitAt(t, SkipUntil(t, 1, Spaces))
Split(s) == SplitStripped(LStripChars(s, Spaces))

\* sep.join(tokens)
RECURSIVE Join(_, _)
Join(tokens, sep) ==
  IF Len(tokens) = 0 THEN <<>>
  ELSE IF Len(tokens) = 1 THEN tokens[1]
  ELSE tokens[1] \o sep \o Join(Tail(tokens), sep)

\* int(s) of a run of digits
RECURSIVE ToInt(_)
ToInt(s) == IF Len(s) = 0 THEN 0
            ELSE 10 * ToInt(SubSeq(s, 1, Len(s) - 1)) + DigitVal(s[Len(s)])
AllDigits(s) == Len(s) > 0 /\ \A i \in 1..Len(s) : IsDigit(s[i])
\* int(s) does not raise ValueError: an optional sign, then digits
IsIntLiteral(s) ==
  IF Len(s) > 0 /\ s[1] \in {"+", "-"} THEN AllDigits(Tail(s)) ELSE AllDigits(s)

(***************************************************************************)
(* split_speaker_and_title                                                 *)
(***************************************************************************)
\* the test of case 1: "(" in rest and ")" in rest
HasParens(rest) == HasChar(rest, "(") /\ HasChar(rest, ")")

\* case 1, last_close being rest.rfind(")") + 1
SplitAtParen(rest, last_close) ==
  [speaker |-> Strip(SubSeq(rest, 1, last_close)),
   title |-> StripChars(SubSeq(rest, last_close + 1, Len(rest)), {" ", "-", "endash", ":"})]

\* the test of case 2
IsAnnouncement(tokens) ==
  /\ Len(tokens) > 0
  /\ RStripChars(UpperStr(tokens[Len(tokens)]), {"."}) \in {<<"T", "B", "A">>, <<"T", "B", "D">>}
  /\ Len(tokens) >= 2

\* cases 2 and 3 and the last return, tokens being rest.split()
SplitTokens(raw, tokens) ==
  IF IsAnnouncement(tokens)
  THEN [speaker |-> Join(SubSeq(tokens, 1, Len(tokens) - 1), <<" ">>),
        title |-> tokens[Len(tokens)]]
  ELSE IF Len(tokens) >= 4
  THEN [speaker |-> Join(SubSeq(tokens, 1, 2), <<" ">>),
        title |-> Join(SubSeq(tokens, 3, Len(tokens)), <<" ">>)]
  ELSE [speaker |-> raw, title |-> <<>>]

\* the function after rest = " ".join(rest.split())
SplitNormalised(rest) ==
  IF Len(rest) = 0 THEN [speaker |-> <<>>, title |-> <<>>]
  ELSE IF HasParens(rest)
  THEN SplitAtParen(rest, Max({i \in 1..Len(rest) : rest[i] = ")"}))
  ELSE SplitTokens(rest, Split(rest))

split_speaker_and_title(rest) == SplitNormalised(Join(Split(rest), <<" ">>))

(***************************************************************************)
(* Calendar dates: datetime.date(year, month, day) raises ValueError       *)
(* outside MINYEAR..MAXYEAR and the month's days.                          *)
(***************************************************************************)
IsLeap(y) == (y % 4 = 0 /\ y % 100 # 0) \/ y % 400 = 0
DaysIn(y, m) == IF m = 2 THEN (IF IsLeap(y) THEN 29 ELSE 28)
                ELSE IF m \in {4, 6, 9, 11} THEN 30 ELSE 31
ValidDate(y, m, d) == y \in 1..9999 /\ m \in 1..12 /\ d \in 1..DaysIn(y, m)
Date(y, m, d) == [year |-> y, month |-> m, day |-> d]
\* the order of dates, as a number
Ordinal(d) == d.year * 10000 + d.month * 100 + d.day

(***************************************************************************)
(* datetime.strptime on three tokens joined by single spaces, for the      *)
(* format directives parse_date_prefix uses: %d is one or two digits       *)
(* 1..31, %b / %B an English month name (abbreviated / full) in any case,  *)
(* %Y four digits; the whole string must match and name a real date.       *)
(***************************************************************************)
MonthAbbr == <<<<"j", "a", "n">>, <<"f", "e", "b">>, <<"m", "a", "r">>, <<"a", "p", "r">>, <<"m", "a", "y">>, <<"j", "u", "n">>,
               <<"j", "u", "l">>, <<"a", "u", "g">>, <<"s", "e", "p">>, <<"o", "c", "t">>, <<"n", "o", "v">>, <<"d", "e", "c">>>>
MonthFull == <<<<"j", "a", "n", "u", "a", "r", "y">>, <<"f", "e", "b", "r", "u", "a", "r", "y">>, <<"m", "a", "r", "c", "h">>, <<"a", "p", "r", "i", "l">>, <<"m", "a", "y">>, <<"j", "u", "n", "e">>,
               <<"j", "u", "l", "y">>, <<"a", "u", "g", "u", "s", "t">>, <<"s", "e", "p", "t", "e", "m", "b", "e", "r">>, <<"o", "c", "t", "o", "b", "e", "r">>, <<"n", "o", "v", "e", "m", "b", "e", "r">>,
               <<"d", "e", "c", "e", "m", "b", "e", "r">>>>
\* the month a name stands for, 0 if none: tok is in lower case
NameIndex(names, tok) ==
  IF \E i \in 1..12 : names[i] = tok THEN CHOOSE i \in 1..12 : names[i] = tok ELSE 0
\* %d: 0 if the token does not match
DirectiveDay(tok) ==
  IF AllDigits(tok) /\ Len(tok) <= 2 /\ ToInt(tok) \in 1..31 THEN ToInt(tok) ELSE 0
\* %Y: 0 if the token does not match or is the year 0, which no date has
DirectiveYear(tok) == IF AllDigits(tok) /\ Len(tok) = 4 THEN ToInt(tok) ELSE 0

\* the date of the directives' values, None for ValueError
DateOrNone(y, m, d) == IF ValidDate(y, m, d) THEN Some(Date(y, m, d)) ELSE None

\* strptime(" ".join([dtok, mtok, ytok]), fmt).date(), None for ValueError;
\* names is MonthAbbr for %b and MonthFull for %B
strptime(dtok, mtok, ytok, names) ==
  DateOrNone(DirectiveYear(ytok), NameIndex(names, LowerStr(mtok)), DirectiveDay(dtok))

\* the first format of the loop that parses
TryFormats(dtok, mtok, ytok) ==
  OrElse(strptime(dtok, mtok, ytok, MonthAbbr), strptime(dtok, mtok, ytok, MonthFull))

(***************************************************************************)
(* parse_date_prefix                                                       *)
(***************************************************************************)
\* case 1: the date of '04 Nov 2025', None if the case does not return
PrefixCase1(tokens) ==
  IF IsIntLiteral(RStripChars(tokens[1], {"."}))
  THEN TryFormats(tokens[1], tokens[2], tokens[3]) ELSE None

\* case 2: the date of 'Nov 18, 2025', None if the case does not return
PrefixCase2(tokens) == TryFormats(RStripChars(tokens[2], {",", "."}), tokens[1], tokens[3])

\* the returns after the token count's, d being the date of the case that returns
PrefixResult(line, tokens, d) ==
  IF d = None THEN [date |-> None, rest |-> line]
  ELSE [date |-> d, rest |-> Join(SubSeq(tokens, 4, Len(tokens)), <<" ">>)]

\* the function after tokens = line.split()
PrefixOfTokens(line, tokens) ==
  IF Len(tokens) < 3 THEN [date |-> None, rest |-> line]
  ELSE PrefixResult(line, tokens, OrElse(PrefixCase1(tokens), PrefixCase2(tokens)))

\* the function after line = line.replace("\xa0", " ").strip()
PrefixOfLine(line) == PrefixOfTokens(line, Split(line))

parse_date_prefix(line) == PrefixOfLine(Strip(ReplaceChar(line, "nbsp", " ")))

(***************************************************************************)
(* parse_german_or_english_date                                            *)
(***************************************************************************)
MONTH_MAP == {
  <<<<"j", "a", "n">>, 1>>, <<<<"j", "a", "n", "u", "a", "r", "y">>, 1>>, <<<<"j", "a", "n", "u", "a", "r">>, 1>>,
  <<<<"f", "e", "b">>, 2>>, <<<<"f", "e", "b", "r", "u", "a", "r", "y">>, 2>>, <<<<"f", "e", "b", "r", "u", "a", "r">>, 2>>,
  <<<<"m", "a", "r">>, 3>>, <<<<"m", "a", "r", "c", "h">>, 3>>, <<<<"m", "a", "e", "r", "z">>, 3>>, <<<<"m", "auml", "r", "z">>, 3>>,
  <<<<"a", "p", "r">>, 4>>, <<<<"a", "p", "r", "i", "l">>, 4>>,
  <<<<"m", "a", "y">>, 5>>, <<<<"m", "a", "i">>, 5>>,
  <<<<"j", "u", "n">>, 6>>, <<<<"j", "u", "n", "e">>, 6>>, <<<<"j", "u", "n", "i">>, 6>>,
  <<<<"j", "u", "l">>, 7>>, <<<<"j", "u", "l", "y">>, 7>>, <<<<"j", "u", "l", "i">>, 7>>,
  <<<<"a", "u", "g">>, 8>>, <<<<"a", "u", "g", "u", "s", "t">>, 8>>,
  <<<<"s", "e", "p">>, 9>>, <<<<"s", "e", "p", "t">>, 9>>, <<<<"s", "e", "p", "t", "e", "m", "b", "e", "r">>, 9>>,
  <<<<"o", "c", "t">>, 10>>, <<<<"o", "c", "t", "o", "b", "e", "r">>, 10>>, <<<<"o", "k", "t", "o", "b", "e", "r">>, 10>>,
  <<<<"n", "o", "v">>, 11>>, <<<<"n", "o", "v", "e", "m", "b", "e", "r">>, 11>>,
  <<<<"d", "e", "c">>, 12>>, <<<<"d", "e", "c", "e", "m", "b", "e", "r">>, 12>>, <<<<"d", "e", "z", "e", "m", "b", "e", "r">>, 12>> }

\* MONTH_MAP.get(key): 0 for None
MonthOf(key) ==
  IF \E e \in MONTH_MAP : e[1] = key THEN (CHOOSE e \in MONTH_MAP : e[1] = key)[2] ELSE 0

\* key.replace("ä", "ae").replace("ö", "oe").replace("ü", "ue")
FoldUmlaut(c) == CASE c = "auml" -> <<"a", "e">>
                   [] c = "ouml" -> <<"o", "e">>
                   [] c = "uuml" -> <<"u", "e">>
                   [] OTHER -> <<c>>
RECURSIVE FoldUmlauts(_)
FoldUmlauts(s) == IF Len(s) = 0 THEN <<>> ELSE FoldUmlaut(s[1]) \o FoldUmlauts(Tail(s))

\* A match of (\d{1,2})\.\s*([A-Za-zäöüÄÖÜ]+)\s+(\d{4}) whose day starts at i and
\* whose period is at dot: its groups, or None.  p is where the month's name
\* starts, q where it ends, r where the year starts.
DateGroups(s, i, dot, p, q, r) ==
  IF /\ dot <= Len(s)
     /\ \A k \in i..(dot - 1) : IsDigit(s[k])
     /\ s[dot] = "."
     /\ q > p
     /\ r > q
     /\ r + 3 <= Len(s)
     /\ \A k \in r..(r + 3) : IsDigit(s[k])
  THEN Some([day |-> SubSeq(s, i, dot - 1), month_name |-> SubSeq(s, p, q - 1),
             year |-> SubSeq(s, r, r + 3)])
  ELSE None
DateAfterName(s, i, dot, p, q) == DateGroups(s, i, dot, p, q, SkipWhile(s, q, Spaces))
DateAfterDot(s, i, dot, p) == DateAfterName(s, i, dot, p, SkipWhile(s, p, Letters))
DateMatchAt(s, i, dl) == DateAfterDot(s, i, i + dl, SkipWhile(s, i + dl + 1, Spaces))

\* the match that starts at i: two day digits are tried before one
DateMatchFrom(s, i) == OrElse(DateMatchAt(s, i, 2), DateMatchAt(s, i, 1))

\* the match that starts at i0, None if i0 is 0
DateMatchOrNone(s, i0) == IF i0 = 0 THEN None ELSE DateMatchFrom(s, i0)

\* re.search: the leftmost match
DateSearch(s) ==
  DateMatchOrNone(s, FirstFrom({i \in 1..Len(s) : DateMatchFrom(s, i) # None}, 1))

\* the function after "month = MONTH_MAP.get(key)"
DateOfParts(day, month, year) == IF month = 0 THEN None ELSE DateOrNone(year, month, day)

\* the function after the search gave m
DateOfMatch(m) ==
  IF m = None THEN None
  ELSE DateOfParts(ToInt(m[1].day), MonthOf(FoldUmlauts(LowerStr(m[1].month_name))),
                   ToInt(m[1].year))

parse_german_or_english_date(line) == DateOfMatch(DateSearch(ReplaceChar(line, "nbsp", " ")))

(***************************************************************************)
(* Event, and datetime.time(hour, minute), which raises ValueError for an  *)
(* hour over 23 or a minute over 59.                                       *)
(***************************************************************************)
Time(h, m) == [hour |-> h, minute |-> m]
ValidTime(t) == t.hour \in 0..23 /\ t.minute \in 0..59
Event(series, source_url, title, speaker, d, t, location, raw) ==
  [series |-> series, source_url |-> source_url, title |-> title, speaker |-> speaker,
   date |-> d, time |-> t, location |-> location, raw |-> raw]

(***************************************************************************)
(* parse_imfs_block.  Indices are Python's plus one; 0 stands for None.    *)
(***************************************************************************)
IMFS_URL == <<"h", "t", "t", "p", "s", ":", "/", "/", "w", "w", "w", ".", "i", "m", "f", "s", "-", "f", "r", "a", "n", "k", "f", "u", "r", "t", ".", "d", "e", "/", "v", "e", "r", "a", "n", "s", "t", "a", "l", "t", "u", "n", "g", "e", "n", "/", "a", "l", "l", "e", "-", "k", "o", "m", "m", "e", "n", "d", "e", "n", "-", "v", "e", "r", "a", "n", "s", "t", "a", "l", "t", "u", "n", "g", "e", "n">>
OpenQuotes == {"\"", "bdquo", "ldquo"}
CloseQuotes == {"\"", "rdquo", "ldquo"}
AllQuotes == {"\"", "ldquo", "rdquo", "bdquo"}
StopPhrases == {<<"b", "i", "t", "t", "e", " ", "m", "e", "l", "d", "e", "n">>, <<"r", "e", "g", "i", "s", "t", "r", "a", "t", "i", "o", "n">>, <<"a", "n", "m", "e", "l", "d", "u", "n", "g">>}

\* the title of a line whose first opening quotation mark is at i and whose next
\* closing one is at j (beyond the line if there is none)
QuotedSpan(ln, i, j) ==
  IF j <= Len(ln) THEN Strip(SubSeq(ln, i + 1, j - 1))
  ELSE StripChars(Strip(ln), AllQuotes)
QuotedFrom(ln, i) == QuotedSpan(ln, i, SkipUntil(ln, i + 1, CloseQuotes))
\* the title a line with a quotation mark gives
QuotedTitle(ln) == QuotedFrom(ln, SkipUntil(ln, 1, OpenQuotes))

\* the title loop's test
HasQuote(ln) == \E k \in 1..Len(ln) : ln[k] \in OpenQuotes

\* the title, k being the first line of lines[1:] with a quotation mark
TitleAt(blk, k) ==
  IF k # 0 THEN QuotedTitle(blk[k])
  ELSE IF Len(blk) > 1 THEN Strip(blk[2])
  ELSE <<>>
\* the title loop over lines[1:], with its else clause
BlockTitle(blk) == TitleAt(blk, FirstFrom({k \in 2..Len(blk) : HasQuote(blk[k])}, 1))

\* a match of (\d{1,2}):(\d{2}) that starts at i with an hour of dl digits
TimeMatchAt(s, i, dl) ==
  /\ i + dl + 2 <= Len(s)
  /\ \A k \in i..(i + dl - 1) : IsDigit(s[k])
  /\ s[i + dl] = ":"
  /\ IsDigit(s[i + dl + 1]) /\ IsDigit(s[i + dl + 2])

\* the groups of the match that starts at i with an hour of dl digits
TimeGroups(s, i, dl) ==
  Some([h |-> ToInt(SubSeq(s, i, i + dl - 1)),
        mnt |-> ToInt(SubSeq(s, i + dl + 1, i + dl + 2))])
\* the groups of the match that starts at i0, None if i0 is 0
TimeMatchOrNone(s, i0) ==
  IF i0 = 0 THEN None ELSE TimeGroups(s, i0, IF TimeMatchAt(s, i0, 2) THEN 2 ELSE 1)
\* re.search(r"(\d{1,2}):(\d{2})", ln): its groups as numbers, or None
TimeSearch(s) ==
  TimeMatchOrNone(s, FirstFrom({i \in 1..Len(s) : TimeMatchAt(s, i, 2) \/ TimeMatchAt(s, i, 1)},
                               1))

\* the test of the time loop: "uhr" in ln.lower() or re.search(r"\d{1,2}:\d{2}", ln)
IsTimeLine(ln) == Contains(LowerStr(ln), <<"u", "h", "r">>) \/ TimeSearch(ln) # None

\* the test of the location loop's break
HasStopPhrase(ln) == \E ph \in StopPhrases : Contains(LowerStr(ln), ph)

\* the date loop: date_idx
BlockDateIndex(blk) ==
  FirstFrom({k \in 1..Len(blk) : parse_german_or_english_date(blk[k]) # None}, 1)

\* the time loop: time_idx
BlockTimeIndex(blk, date_idx) ==
  FirstFrom({k \in (date_idx + 1)..Len(blk) : IsTimeLine(blk[k])}, 1)

\* the time loop: the arguments of time(h, mnt), the default's if the loop calls none;
\* m is the search in the time line
TimeOfMatch(m) == IF m = None THEN Time(12, 0) ELSE Time(m[1].h, m[1].mnt)
BlockTime(blk, time_idx) ==
  IF time_idx = 0 THEN Time(12, 0) ELSE TimeOfMatch(TimeSearch(blk[time_idx]))

\* start_loc without the time line's index: the line after the date line
StartLocAfterDateMutant(date_idx, time_idx) == date_idx + 1
\* start_loc
StartLoc(date_idx, time_idx) == IF time_idx # 0 THEN time_idx + 1 ELSE date_idx + 1

\* the location loop: loc_lines, end_loc being the last line before the break
LocLines(blk, start_loc, end_loc) ==
  [k \in 1..(end_loc - start_loc + 1) |-> Strip(blk[start_loc + k - 1])]
\* location, stop_idx being the line of the break
LocationUpTo(blk, start_loc, stop_idx) ==
  IF (IF stop_idx = 0 THEN Len(blk) ELSE stop_idx - 1) < start_loc THEN None
  ELSE Some(Join(LocLines(blk, start_loc, IF stop_idx = 0 THEN Len(blk) ELSE stop_idx - 1),
                 <<",", " ">>))
BlockLocation(blk, start_loc) ==
  LocationUpTo(blk, start_loc,
               FirstFrom({k \in start_loc..Len(blk) : HasStopPhrase(blk[k])}, 1))

\* the function from "Location lines" on
BlockEvent(series_name, blk, date_idx, event_time, start_loc) ==
  Event(<<"I", "M", "F", "S", " ", "endash", " ">> \o series_name, IMFS_URL, BlockTitle(blk), Strip(blk[1]),
        parse_german_or_english_date(blk[date_idx])[1], event_time,
        BlockLocation(blk, start_loc), Join(blk, <<"\n">>))

\* the function from time(h, mnt) on
BlockAfterTimeLoop(series_name, blk, date_idx, time_idx, event_time) ==
  IF ~ValidTime(event_time) THEN [kind |-> "ValueError"]
  ELSE [kind |-> "event",
        event |-> BlockEvent(series_name, blk, date_idx, event_time,
                             StartLoc(date_idx, time_idx))]

\* the function from "Time line after the date" on
BlockAfterDateLoop(series_name, blk, date_idx, time_idx) ==
  BlockAfterTimeLoop(series_name, blk, date_idx, time_idx, BlockTime(blk, time_idx))

\* the function from "if event_date is None" on
BlockWithDate(series_name, blk, date_idx) ==
  IF date_idx = 0 THEN [kind |-> "none"]
  ELSE BlockAfterDateLoop(series_name, blk, date_idx, BlockTimeIndex(blk, date_idx))

\* [kind |-> "none"] for None, "ValueError" for the exception time(h, mnt) raises
parse_imfs_block(series_name, blk) ==
  IF Len(blk) = 0 THEN [kind |-> "none"]
  ELSE BlockWithDate(series_name, blk, BlockDateIndex(blk))

(***************************************************************************)
(* scrape_typo3_series, from the lines of the page's text on               *)
(***************************************************************************)
StopMarkers == {<<"p", "r", "e", "v", "i", "o", "u", "s", " ", "e", "v", "e", "n", "t", "s">>, <<"p", "r", "e", "v", "i", "o", "u", "s", " ", "s", "e", "m", "i", "n", "a", "r", "s">>, <<"f", "o", "r", "m", "e", "r", " ", "s", "e", "m", "i", "n", "a", "r", "s">>,
                <<"m", "e", "h", "r", " ", "a", "u", "s", " ", "d", "i", "e", "s", "e", "m", " ", "b", "e", "r", "e", "i", "c", "h">>, <<"k", "e", "i", "n", "e", " ", "e", "r", "e", "i", "g", "n", "i", "s", "s", "e">>}

\* the test of the header loop, lower being line.replace("\xa0", " ").lower()
IsHeaderLower(lower) ==
  Contains(lower, <<"d", "a", "t", "e">>) /\ Contains(lower, <<"s", "p", "e", "a", "k", "e", "r">>) /\ Contains(lower, <<"t", "o", "p", "i", "c">>)
IsHeader(line) == IsHeaderLower(LowerStr(ReplaceChar(line, "nbsp", " ")))

\* header_index plus one; 0 stands for None
HeaderIndex(page) == FirstFrom({i \in 1..Len(page) : IsHeader(page[i])}, 1)

\* the test of the row loop's break, lower being line.lower()
IsStopLower(lower) ==
  StartsWith(lower, <<"*", " ", "*", " ", "*">>) \/ \E mk \in StopMarkers : Contains(lower, mk)
IsStopMarker(line) == IsStopLower(LowerStr(line))

\* the title without "if not title: title = rest.strip()"
RowTitleNoFallbackMutant(rest, title) == title
\* the title of a row: the splitter's, or the row's rest if the splitter found none
RowTitle(rest, title) == IF Len(title) = 0 THEN Strip(rest) ELSE title

\* the event of a row from "speaker, title = split_speaker_and_title(rest)" on,
\* st being the pair the splitter returns
RowEvent(conf, d, rest, st) ==
  Event(conf.series, conf.url, RowTitle(rest, st.title), st.speaker, d,
        conf.default_time, conf.default_location, rest)

\* the body of the row loop after "d, rest = parse_date_prefix(line)" gave p:
\* the events the row appends
RowOfPrefix(conf, p) ==
  IF p.date = None THEN <<>>
  ELSE IF Len(Strip(p.rest)) = 0 THEN <<>>
  ELSE <<RowEvent(conf, p.date[1], p.rest, split_speaker_and_title(p.rest))>>

RowEvents(conf, line) == RowOfPrefix(conf, parse_date_prefix(line))

\* the row loop over lines[header_index + 1:]
RECURSIVE RowLoop(_, _)
RowLoop(conf, rows) ==
  IF Len(rows) = 0 THEN <<>>
  ELSE IF IsStopMarker(rows[1]) THEN <<>>
  ELSE RowEvents(conf, rows[1]) \o RowLoop(conf, Tail(rows))

\* the function after the header loop set header_index
RowsAfter(conf, page, header_index) ==
  IF header_index = 0 THEN <<>>
  ELSE RowLoop(conf, SubSeq(page, header_index + 1, Len(page)))

scrape_typo3_series(conf, page) == RowsAfter(conf, page, HeaderIndex(page))

(***************************************************************************)
(* main: the filter and the sort (list.sort is stable)                     *)
(***************************************************************************)
\* the sort key e.datetime: a.datetime <= b.datetime
NotAfter(a, b) ==
  \/ Ordinal(a.date) < Ordinal(b.date)
  \/ /\ Ordinal(a.date) = Ordinal(b.date)
     /\ a.time.hour * 60 + a.time.minute <= b.time.hour * 60 + b.time.minute

\* the filter with "> today" for ">= today"
IsFutureStrictMutant(e, day) == Ordinal(e.date) > Ordinal(day)
\* "e.datetime.date() >= today"
IsFuture(e, day) == Ordinal(e.date) >= Ordinal(day)

RECURSIVE Filter(_, _)
Filter(evs, day) ==
  IF evs = <<>> THEN <<>>
  ELSE (IF IsFuture(evs[1], day) THEN <<evs[1]>> ELSE <<>>) \o Filter(Tail(evs), day)

\* e put into sorted list srt behind every element that is not after it
Insert(srt, e) ==
  LET k == Cardinality({i \in 1..Len(srt) : NotAfter(srt[i], e)})
  IN SubSeq(srt, 1, k) \o <<e>> \o SubSeq(srt, k + 1, Len(srt))

RECURSIVE Sort(_)
Sort(evs) ==
  IF evs = <<>> THEN <<>> ELSE Insert(Sort(SubSeq(evs, 1, Len(evs) - 1)), evs[Len(evs)])

\* the list main writes to events.json
Aggregate(evs, day) == Sort(Filter(evs, day))

(***************************************************************************)
(* The splitter on its own: a text is put together from pieces, then       *)
(* split_speaker_and_title is called on it.                                *)
(***************************************************************************)
SplitAtoms == {<<" ", "a">>, <<" ">>, <<"(">>, <<")">>, <<"-">>, <<" ", "T", "b", "d", ".">>}

Idle ==
  /\ text = <<>> /\ result = <<>> /\ lines = <<>> /\ tags = <<>>
  /\ current_title = None /\ current_lines = <<>> /\ events = <<>>
  /\ passed = <<>> /\ today = 0 /\ cfg = <<>> /\ n = 0

InitSplit == pc = "input" /\ Idle

AppendAtom(atoms) ==
  /\ pc = "input"
  /\ n < MaxAtoms
  /\ \E a \in atoms : text' = text \o a
  /\ n' = n + 1
  /\ UNCHANGED <<pc, result, lines, tags, current_title, current_lines, events, passed, today, cfg>>

AppendSplitAtom == AppendAtom(SplitAtoms)

CallSplit ==
  /\ pc = "input"
  /\ pc' = "split"
  /\ result' = split_speaker_and_title(text)
  /\ UNCHANGED <<text, lines, tags, current_title, current_lines, events, passed, today, cfg, n>>

NextSplit == AppendSplitAtom \/ CallSplit
SpecSplit == InitSplit /\ [][NextSplit]_vars

(***************************************************************************)
(* The date helpers on their own: a date is written in one of the shapes   *)
(* the pages use, then both helpers are called on it.                      *)
(***************************************************************************)
DayTexts == {<<"0", "4">>, <<"1", "8">>, <<"2", "7">>}
MonthTexts == {[name |-> <<"N", "o", "v">>, number |-> <<"1", "1">>, month |-> 11],
               [name |-> <<"N", "o", "v", "e", "m", "b", "e", "r">>, number |-> <<"1", "1">>, month |-> 11],
               [name |-> <<"M", "auml", "r", "z">>, number |-> <<"0", "3">>, month |-> 3],
               [name |-> <<"M", "a", "e", "r", "z">>, number |-> <<"0", "3">>, month |-> 3],
               [name |-> <<"M", "a", "r", "z">>, number |-> <<"0", "3">>, month |-> 3],
               [name |-> <<"M", "A", "R">>, number |-> <<"0", "3">>, month |-> 3],
               [name |-> <<"F", "o", "o">>, number |-> <<"1", "3">>, month |-> 0]}
YearText == <<"2", "0", "2", "5">>
Shapes == 1..5

\* the date (dd, mon, YearText) written in a shape
Written(shape, dd, mon) ==
  CASE shape = 1 -> dd \o <<" ">> \o mon.name \o <<" ">> \o YearText
    [] shape = 2 -> mon.name \o <<" ">> \o dd \o <<",", " ">> \o YearText
    [] shape = 3 -> dd \o <<".", " ">> \o mon.name \o <<" ">> \o YearText
    [] shape = 4 -> dd \o <<".">> \o mon.number \o <<".">> \o YearText
    [] shape = 5 -> YearText \o <<"-">> \o mon.number \o <<"-">> \o dd

InitDate == pc = "input" /\ Idle

WriteDate ==
  /\ pc = "input"
  /\ \E shape \in Shapes, dd \in DayTexts, mon \in MonthTexts :
       text' = Written(shape, dd, mon)
  /\ pc' = "written"
  /\ UNCHANGED <<result, lines, tags, current_title, current_lines, events, passed, today, cfg, n>>

CallDatePrefix ==
  /\ pc = "written"
  /\ result' = [prefix |-> parse_date_prefix(text).date]
  /\ pc' = "prefix"
  /\ UNCHANGED <<text, lines, tags, current_title, current_lines, events, passed, today, cfg, n>>

CallGermanOrEnglish ==
  /\ pc = "prefix"
  /\ result' = [prefix |-> result.prefix, german |-> parse_german_or_english_date(text)]
  /\ pc' = "parsed"
  /\ UNCHANGED <<text, lines, tags, current_title, current_lines, events, passed, today, cfg, n>>

NextDate == WriteDate \/ CallDatePrefix \/ CallGermanOrEnglish
SpecDate == InitDate /\ [][NextDate]_vars

(***************************************************************************)
(* scrape_typo3_series on its own: the page's lines (stripped, none        *)
(* empty), then the call with one of main's configurations.                *)
(***************************************************************************)
Configs == {
  [url |-> <<"h", "t", "t", "p", "s", ":", "/", "/", "w", "w", "w", ".", "o", "l", "d", ".", "w", "i", "w", "i", ".", "u", "n", "i", "-", "f", "r", "a", "n", "k", "f", "u", "r", "t", ".", "d", "e", "/", "a", "b", "t", "e", "i", "l", "u", "n", "g", "e", "n", "/", "f", "i", "n", "a", "n", "c", "e", "/", "s", "e", "m", "i", "n", "a", "r", "/", "f", "i", "n", "a", "n", "c", "e", "-", "s", "e", "m", "i", "n", "a", "r", "-", "s", "e", "r", "i", "e", "s", "/", "s", "e", "m", "i", "n", "a", "r", "-", "c", "a", "l", "e", "n", "d", "a", "r", ".", "h", "t", "m", "l">>,
   series |-> <<"F", "i", "n", "a", "n", "c", "e", " ", "S", "e", "m", "i", "n", "a", "r", " ", "S", "e", "r", "i", "e", "s">>,
   default_time |-> Time(12, 0),
   default_location |-> Some(<<"H", "o", "F", " ", "E", ".", "0", "1", " ", "(", "D", "e", "u", "t", "s", "c", "h", "e", " ", "B", "a", "n", "k", ")">>)],
  [url |-> <<"h", "t", "t", "p", "s", ":", "/", "/", "w", "w", "w", ".", "o", "l", "d", ".", "w", "i", "w", "i", ".", "u", "n", "i", "-", "f", "r", "a", "n", "k", "f", "u", "r", "t", ".", "d", "e", "/", "a", "b", "t", "e", "i", "l", "u", "n", "g", "e", "n", "/", "m", "o", "n", "e", "y", "-", "a", "n", "d", "-", "m", "a", "c", "r", "o", "e", "c", "o", "n", "o", "m", "i", "c", "s", "/", "b", "r", "o", "w", "n", "-", "b", "a", "g", "-", "s", "e", "m", "i", "n", "a", "r", ".", "h", "t", "m", "l">>,
   series |-> <<"M", "o", "n", "e", "y", " ", "&", " ", "M", "a", "c", "r", "o", " ", "B", "r", "o", "w", "n", " ", "B", "a", "g">>,
   default_time |-> Time(12, 30),
   default_location |-> None] }

PageLines == {<<"D", "a", "t", "e", " ", "S", "p", "e", "a", "k", "e", "r", " ", "T", "o", "p", "i", "c">>,
              <<"P", "r", "e", "v", "i", "o", "u", "s", " ", "S", "e", "m", "i", "n", "a", "r", "s">>,
              <<"0", "4", " ", "N", "o", "v", " ", "2", "0", "2", "5", " ", "J", "a", "n", "e", " ", "D", "o", "e", " ", "(", "M", "I", "T", ")", " ", "-", " ", "O", "n", " ", "M", "a", "r", "k", "e", "t", "s">>,
              <<"N", "o", "v", " ", "1", "8", ",", " ", "2", "0", "2", "5", " ", "J", "o", "h", "n", " ", "R", "o", "e", " ", "T", "B", "A">>,
              <<"0", "4", "nbsp", "N", "o", "v", "e", "m", "b", "e", "r", " ", "2", "0", "2", "5", " ", "D", "o", "e">>,
              <<"0", "4", " ", "N", "o", "v", " ", "2", "0", "2", "5">>,
              <<"2", "7", ".", " ", "N", "o", "v", "e", "m", "b", "e", "r", " ", "2", "0", "2", "5", " ", "A", "n", "n", " ", "L", "e", "e">>,
              <<"R", "o", "o", "m", " ", "1">>}

InitTable ==
  /\ pc = "input"
  /\ text = <<>> /\ result = <<>> /\ lines = <<>> /\ tags = <<>>
  /\ current_title = None /\ current_lines = <<>> /\ events = <<>>
  /\ passed = <<>> /\ today = 0 /\ n = 0
  /\ cfg \in Configs

AddPageLine ==
  /\ pc = "input"
  /\ Len(lines) < MaxRows
  /\ \E ln \in PageLines : lines' = Append(lines, ln)
  /\ UNCHANGED <<pc, text, result, tags, current_title, current_lines, events, passed, today, cfg, n>>

CallScrapeTypo3 ==
  /\ pc = "input"
  /\ events' = scrape_typo3_series(cfg, lines)
  /\ pc' = "returned"
  /\ UNCHANGED <<text, result, lines, tags, current_title, current_lines, passed, today, cfg, n>>

NextTable == AddPageLine \/ CallScrapeTypo3
SpecTable == InitTable /\ [][NextTable]_vars

(***************************************************************************)
(* parse_imfs_block on its own: a block's lines, then the call.            *)
(***************************************************************************)
BlockLines == {<<"J", "a", "n", "e", " ", "D", "o", "e", ",", " ", "M", "I", "T">>,
               <<"\"", "A", " ", "G", "r", "e", "a", "t", " ", "T", "a", "l", "k", "\"">>,
               <<"2", "7", ".", " ", "N", "o", "v", "e", "m", "b", "e", "r", " ", "2", "0", "2", "5">>,
               <<"1", "2", ":", "3", "0", "-", "1", "3", ":", "3", "0", " ", "U", "h", "r">>,
               <<"1", "2", " ", "U", "H", "R">>,
               <<"2", "5", ":", "0", "0">>,
               <<"R", "o", "o", "m", " ", "X">>,
               <<"B", "i", "t", "t", "e", " ", "m", "e", "l", "d", "e", "n", " ", "S", "i", "e", " ", "s", "i", "c", "h", " ", "a", "n">>}
BlockSeries == <<"P", "o", "l", "i", "c", "y", " ", "L", "e", "c", "t", "u", "r", "e">>

InitBlock == pc = "input" /\ Idle

AddBlockLine ==
  /\ pc = "input"
  /\ Len(lines) < MaxBlockLines
  /\ \E ln \in BlockLines : lines' = Append(lines, ln)
  /\ UNCHANGED <<pc, text, result, tags, current_title, current_lines, events, passed, today, cfg, n>>

CallParseBlock ==
  /\ pc = "input"
  /\ result' = parse_imfs_block(BlockSeries, lines)
  /\ pc' = "returned"
  /\ UNCHANGED <<text, lines, tags, current_title, current_lines, events, passed, today, cfg, n>>

NextBlock == AddBlockLine \/ CallParseBlock
SpecBlock == InitBlock /\ [][NextBlock]_vars

(***************************************************************************)
(* scrape_imfs: one step for each tag heading.find_all_next() yields (the  *)
(* body of the loop for that tag), one for the end of the page, one for    *)
(* the flush after the loop.  A tag is [name, text], text being its        *)
(* get_text(" ", strip=True).  pc is "loop" in the loop, "break" after it, *)
(* "returned" after "return events" and "ValueError" when the exception    *)
(* of parse_imfs_block has left the function.                              *)
(***************************************************************************)
SECTION_TITLE == <<"A", "l", "l", "e", " ", "k", "o", "m", "m", "e", "n", "d", "e", "n", " ", "V", "e", "r", "a", "n", "s", "t", "a", "l", "t", "u", "n", "g", "e", "n">>
NAV_TITLE == <<"V", "e", "r", "a", "n", "s", "t", "a", "l", "t", "u", "n", "g", "e", "n">>

HeadingTags == {[name |-> "h2", text |-> <<"A">>],
                [name |-> "h3", text |-> <<"B">>],
                [name |-> "h2", text |-> <<>>],
                [name |-> "h3", text |-> SECTION_TITLE],
                [name |-> "h3", text |-> NAV_TITLE]}
TextTags == {[name |-> "p", text |-> <<"2", "7", ".", " ", "N", "o", "v", "e", "m", "b", "e", "r", " ", "2", "0", "2", "5">>],
             [name |-> "p", text |-> <<"2", "5", ":", "0", "0", " ", "U", "h", "r">>],
             [name |-> "li", text |-> <<"R", "o", "o", "m", " ", "X">>]}
OtherTags == {[name |-> "div", text |-> <<>>],
              [name |-> "a", text |-> <<"m", "e", "h", "r">>]}

InitImfs == pc = "loop" /\ Idle

\* "if current_title and current_lines:"
HasOpenBlock == current_title # None /\ current_title # Some(<<>>) /\ current_lines # <<>>

\* the body of that if in the loop, ev being r, and then "current_title = text"
\* and the break test of the loop's end
FlushThen(r, title, goto) ==
  /\ passed' = Append(passed, [series_name |-> current_title[1], lines |-> current_lines])
  /\ IF r.kind = "ValueError"
     THEN pc' = "ValueError" /\ UNCHANGED <<current_title, current_lines, events>>
     ELSE /\ events' = (IF r.kind = "event" THEN Append(events, r.event) ELSE events)
          /\ current_lines' = <<>>
          /\ current_title' = title
          /\ pc' = goto

\* where the loop goes after a heading that is not the section's own
AfterHeading(tag) ==
  IF tag.name = "h3" /\ Contains(tag.text, NAV_TITLE) THEN "break" ELSE "loop"

\* the loop's body for an h2 or h3
Heading(tag) ==
  IF Contains(tag.text, SECTION_TITLE)
  THEN UNCHANGED <<pc, current_title, current_lines, events, passed>>
  ELSE IF HasOpenBlock
  THEN \E r \in {parse_imfs_block(current_title[1], current_lines)} :
         FlushThen(r, Some(tag.text), AfterHeading(tag))
  ELSE /\ current_title' = Some(tag.text)
       /\ pc' = AfterHeading(tag)
       /\ UNCHANGED <<current_lines, events, passed>>

HeadingTag ==
  /\ pc = "loop"
  /\ Len(tags) < MaxTags
  /\ \E tag \in HeadingTags : tags' = Append(tags, tag) /\ Heading(tag)
  /\ UNCHANGED <<text, result, lines, today, cfg, n>>

\* the loop's body for a p, div, span or li with text
TextTag ==
  /\ pc = "loop"
  /\ Len(tags) < MaxTags
  /\ \E tag \in TextTags :
       /\ tags' = Append(tags, tag)
       /\ current_lines' = Append(current_lines, tag.text)
  /\ UNCHANGED <<pc, text, result, lines, current_title, events, passed, today, cfg, n>>

\* the loop's body for any other tag, and for a p, div, span or li without text
OtherTag ==
  /\ pc = "loop"
  /\ Len(tags) < MaxTags
  /\ \E tag \in OtherTags : tags' = Append(tags, tag)
  /\ UNCHANGED <<pc, text, result, lines, current_title, current_lines, events, passed,
                 today, cfg, n>>

\* the loop's body for an h1
H1Tag ==
  /\ pc = "loop"
  /\ Len(tags) < MaxTags
  /\ tags' = Append(tags, [name |-> "h1", text |-> <<"K", "o", "n", "t", "a", "k", "t">>])
  /\ pc' = "break"
  /\ UNCHANGED <<text, result, lines, current_title, current_lines, events, passed,
                 today, cfg, n>>

\* find_all_next() is exhausted
EndOfPage ==
  /\ pc = "loop"
  /\ pc' = "break"
  /\ UNCHANGED <<text, result, lines, tags, current_title, current_lines, events, passed,
                 today, cfg, n>>

\* "Flush last block" and "return events"
FlushLast ==
  /\ pc = "break"
  /\ IF HasOpenBlock
     THEN \E r \in {parse_imfs_block(current_title[1], current_lines)} :
            /\ passed' = Append(passed, [series_name |-> current_title[1],
                                         lines |-> current_lines])
            /\ pc' = (IF r.kind = "ValueError" THEN "ValueError" ELSE "returned")
            /\ events' = (IF r.kind = "event" THEN Append(events, r.event) ELSE events)
     ELSE pc' = "returned" /\ UNCHANGED <<events, passed>>
  /\ UNCHANGED <<text, result, lines, tags, current_title, current_lines, today, cfg, n>>

NextImfs == HeadingTag \/ TextTag \/ OtherTag \/ H1Tag \/ EndOfPage \/ FlushLast
SpecImfs == InitImfs /\ [][NextImfs]_vars

(***************************************************************************)
(* main: the scrapers' events are collected, then filtered, sorted and     *)
(* written.                                                                *)
(***************************************************************************)
ScrapedEvents ==
  {Event(sr, <<"u">>, <<"T">>, <<"D", "o", "e">>, Date(2025, 11, d), t, None, <<"r">>) :
     sr \in {<<"A">>, <<"B">>}, d \in {3, 4, 5}, t \in {Time(12, 0), Time(14, 15)}}
Days == {Date(2025, 11, d) : d \in {3, 4, 5}}

InitMain ==
  /\ pc = "scraping"
  /\ text = <<>> /\ result = <<>> /\ lines = <<>> /\ tags = <<>>
  /\ current_title = None /\ current_lines = <<>> /\ events = <<>>
  /\ passed = <<>> /\ cfg = <<>> /\ n = 0
  /\ today \in Days

Scraped ==
  /\ pc = "scraping"
  /\ Len(events) < MaxEvents
  /\ \E e \in ScrapedEvents : events' = Append(events, e)
  /\ UNCHANGED <<pc, text, result, lines, tags, current_title, current_lines, passed, today, cfg, n>>

WriteEvents ==
  /\ pc = "scraping"
  /\ result' = Aggregate(events, today)
  /\ pc' = "written"
  /\ UNCHANGED <<text, lines, tags, current_title, current_lines, events, passed, today, cfg, n>>

NextMain == Scraped \/ WriteEvents
SpecMain == InitMain /\ [][NextMain]_vars

(***************************************************************************)
(* The properties.                                                         *)
(***************************************************************************)

\* ---- main ----
\* the deduplication key of an event: series, title, calendar date
Key(e) == <<e.series, e.title, e.date>>
\* a's date-time is before b's
Earlier(a, b) ==
  LET x == <<a.date.year, a.date.month, a.date.day, a.time.hour, a.time.minute>>
      y == <<b.date.year, b.date.month, b.date.day, b.time.hour, b.time.minute>>
  IN \E i \in 1..5 : x[i] < y[i] /\ \A j \in 1..(i - 1) : x[j] = y[j]
SameInstant(a, b) == ~Earlier(a, b) /\ ~Earlier(b, a)
OnOrAfterToday(e) ==
  \/ e.date.year > today.year
  \/ e.date.year = today.year /\ e.date.month > today.month
  \/ e.date.year = today.year /\ e.date.month = today.month /\ e.date.day >= today.day
\* the events of evs that are not before today and have x's date-time, in evs' order
RECURSIVE KeptAt(_, _)
KeptAt(evs, x) ==
  IF Len(evs) = 0 THEN <<>>
  ELSE (IF OnOrAfterToday(evs[1]) /\ SameInstant(evs[1], x) THEN <<evs[1]>> ELSE <<>>)
       \o KeptAt(Tail(evs), x)

\* C1: the written list holds no two events with the same (series, title, date)
\* key, and each of its events is the first event of the input with its key.
C1_Deduplicated ==
  pc = "written" =>
    /\ \A i, j \in 1..Len(result) : i # j => Key(result[i]) # Key(result[j])
    /\ \A i \in 1..Len(result) :
         result[i] = events[Min({k \in 1..Len(events) : Key(events[k]) = Key(result[i])})]

\* C2: the written list holds no event dated before today, holds every event of
\* the input dated today or later (as often as the input does), is in
\* non-decreasing order of date-time, and keeps the events of one date-time in
\* their order in the input.
C2_FilteredAndStablySorted ==
  pc = "written" =>
    /\ \A i \in 1..Len(result) : OnOrAfterToday(result[i])
    /\ Len(result) = Cardinality({k \in 1..Len(events) : OnOrAfterToday(events[k])})
    /\ \A k \in 1..Len(events) :
         OnOrAfterToday(events[k]) => \E i \in 1..Len(result) : result[i] = events[k]
    /\ \A i, j \in 1..Len(result) : i < j => ~Earlier(result[j], result[i])
    /\ \A i \in 1..Len(result) : KeptAt(result, result[i]) = KeptAt(events, result[i])

\* C2's case: an event dated today is kept, an earlier one is dropped, and two
\* different events of one date-time are written in the input's order.
C2_Witness ==
  /\ pc = "written"
  /\ Len(result) < Len(events)
  /\ \E i \in 1..Len(result) : result[i].date = today
  /\ \E i, j \in 1..Len(result) :
       i < j /\ SameInstant(result[i], result[j]) /\ result[i] # result[j]
  /\ \E i \in 1..(Len(events) - 1) : Earlier(events[i + 1], events[i])

\* ---- split_speaker_and_title ----
\* the text holds a parenthesized span: a "(" before a ")"
HasSpan(t) == \E i, j \in 1..Len(t) : i < j /\ t[i] = "(" /\ t[j] = ")"
\* the four rules in their order, on a text t of tokens tk joined by single spaces
RuleSplit(t, tk) ==
  IF HasSpan(t)
  THEN [speaker |-> SubSeq(t, 1, Max({i \in 1..Len(t) : t[i] = ")"})),
        title |-> LStripChars(SubSeq(t, Max({i \in 1..Len(t) : t[i] = ")"}) + 1, Len(t)),
                              {" ", "-", "endash", ":"})]
  ELSE IF Len(tk) >= 2 /\ RStripChars(UpperStr(tk[Len(tk)]), {"."}) \in {<<"T", "B", "A">>, <<"T", "B", "D">>}
  THEN [speaker |-> Join(SubSeq(tk, 1, Len(tk) - 1), <<" ">>), title |-> tk[Len(tk)]]
  ELSE IF Len(tk) >= 4
  THEN [speaker |-> Join(SubSeq(tk, 1, 2), <<" ">>),
        title |-> Join(SubSeq(tk, 3, Len(tk)), <<" ">>)]
  ELSE [speaker |-> t, title |-> <<>>]

\* C6: the splitter returns what the first matching of the four rules gives, rule 1
\* matching only when an opening parenthesis precedes a closing one, and its
\* title being the remainder without its leading separators.
C6_FirstMatchingRule ==
  pc = "split" => result = RuleSplit(Join(Split(text), <<" ">>), Split(text))

\* ---- the date helpers ----
\* C8: each of the five shapes of a date with a month of the lexicon is
\* recognized, by one of the two helpers, as that date; a date with an unknown
\* month is recognized by neither.
C8_FiveShapes ==
  pc = "parsed" =>
    \A shape \in Shapes, dd \in DayTexts, mon \in MonthTexts :
      text = Written(shape, dd, mon) =>
        IF mon.month = 0 THEN result.prefix = None /\ result.german = None
        ELSE \/ result.prefix = Some(Date(2025, mon.month, ToInt(dd)))
             \/ result.german = Some(Date(2025, mon.month, ToInt(dd)))

\* ---- scrape_typo3_series ----
\* the rows of the table: the lines after the header up to the line before `last`
RowsUpTo(last) ==
  IF HeaderIndex(lines) = 0 THEN {} ELSE (HeaderIndex(lines) + 1)..last
\* the index of the first stop marker after the header, Len(lines) + 1 if none
FirstStop ==
  IF \E i \in RowsUpTo(Len(lines)) : IsStopMarker(lines[i])
  THEN Min({i \in RowsUpTo(Len(lines)) : IsStopMarker(lines[i])}) ELSE Len(lines) + 1
\* the line has a valid leading date and something after it
IsEventRow(line) ==
  parse_date_prefix(line).date # None /\ Len(Strip(parse_date_prefix(line).rest)) > 0
\* the index of the k-th event row among the rows R
KthRow(R, k) ==
  CHOOSE i \in R : IsEventRow(lines[i])
                   /\ Cardinality({j \in R : j <= i /\ IsEventRow(lines[j])}) = k
\* the events are one for each event row among the rows R, in their order, each
\* with a title, the row's date, the default time and the default location
OneEventPerRow(R) ==
  /\ Len(events) = Cardinality({i \in R : IsEventRow(lines[i])})
  /\ \A k \in 1..Len(events) :
       /\ Len(events[k].title) > 0
       /\ events[k].time = cfg.default_time
       /\ events[k].location = cfg.default_location
       /\ k <= Cardinality({i \in R : IsEventRow(lines[i])})
            => Some(events[k].date) = parse_date_prefix(lines[KthRow(R, k)]).date

\* C7 as stated: one event for each line after the header that has a valid
\* leading date and a remainder, and none for any other line.
C7_EveryRowAfterHeader == pc = "returned" => OneEventPerRow(RowsUpTo(Len(lines)))

\* C7 as amended: one event for each line between the header and the first stop
\* marker after it that has a valid leading date and a remainder, none for any
\* other line; each event has a title, the row's date, the default time and the
\* default location.
C7_EveryRowBeforeStop == pc = "returned" => OneEventPerRow(RowsUpTo(FirstStop - 1))

\* C7's case: an event row past a stop marker, events from rows before it, one of
\* them with the row's rest as its title, and a line without a date among the rows.
C7_Witness ==
  /\ pc = "returned"
  /\ Len(events) >= 1
  /\ \E i \in RowsUpTo(Len(lines)) : i > FirstStop /\ IsEventRow(lines[i])
  /\ \E k \in 1..Len(events) : events[k].title = events[k].raw

\* ---- parse_imfs_block ----
\* the index of the first line with a date, 0 if none
DateLine ==
  IF \E k \in 1..Len(lines) : parse_german_or_english_date(lines[k]) # None
  THEN Min({k \in 1..Len(lines) : parse_german_or_english_date(lines[k]) # None}) ELSE 0
HasClock(ln) == TimeSearch(ln) # None
HasUhr(ln) == Contains(LowerStr(ln), <<"u", "h", "r">>)
\* the index of the first line after the date line with HH:MM or "Uhr", 0 if none
TimeLine ==
  IF \E k \in (DateLine + 1)..Len(lines) : HasClock(lines[k]) \/ HasUhr(lines[k])
  THEN Min({k \in (DateLine + 1)..Len(lines) : HasClock(lines[k]) \/ HasUhr(lines[k])})
  ELSE 0
\* the line the location starts after
LocationAfter == IF TimeLine # 0 THEN TimeLine ELSE DateLine
\* the index of the first line with a stop phrase after that, Len(lines) + 1 if none
StopLine ==
  IF \E k \in (LocationAfter + 1)..Len(lines) : HasStopPhrase(lines[k])
  THEN Min({k \in (LocationAfter + 1)..Len(lines) : HasStopPhrase(lines[k])})
  ELSE Len(lines) + 1
\* the lines from..to, stripped and joined with ", "
RECURSIVE Joined(_, _)
Joined(from, to) ==
  IF from = to THEN Strip(lines[from])
  ELSE Strip(lines[from]) \o <<",", " ">> \o Joined(from + 1, to)

\* C4: the parser returns an Event exactly if a line of the block has a date,
\* and then the Event's date is that of the first such line.
C4_EventIffDateLine ==
  pc = "returned" =>
    /\ result.kind = "event" <=> DateLine # 0
    /\ result.kind = "event" =>
         Some(result.event.date) = parse_german_or_english_date(lines[DateLine])

\* C10: in an Event the parser returns, the time is the HH:MM of the first line
\* after the date line that holds an HH:MM or "Uhr" (12:00 if that line has no
\* HH:MM or there is no such line), and the location is the lines after that
\* line (after the date line if there is none) up to and without the first of
\* them with a stop phrase, joined with ", ", and None if there are none.
C10_TimeAndLocation ==
  pc = "returned" /\ result.kind = "event" =>
    /\ result.event.time =
         (IF TimeLine # 0 /\ HasClock(lines[TimeLine])
          THEN Time(TimeSearch(lines[TimeLine])[1].h, TimeSearch(lines[TimeLine])[1].mnt)
          ELSE Time(12, 0))
    /\ result.event.location =
         (IF StopLine - 1 > LocationAfter
          THEN Some(Joined(LocationAfter + 1, StopLine - 1)) ELSE None)

\* C10's case: an Event from a block with a time line that holds an HH:MM other
\* than the default, two location lines and a stop phrase after them.
C10_Witness ==
  /\ pc = "returned" /\ result.kind = "event"
  /\ TimeLine # 0 /\ HasClock(lines[TimeLine])
  /\ result.event.time # Time(12, 0)
  /\ StopLine <= Len(lines)
  /\ StopLine - 1 > LocationAfter

\* ---- scrape_imfs ----
\* the headings that start a block: every h2 or h3 but the section's own title
BlockStarts ==
  {h \in 1..Len(tags) : tags[h].name \in {"h2", "h3"}
                        /\ ~Contains(tags[h].text, SECTION_TITLE)}
\* where the block of heading h ends: the next such heading, or the end
BlockEnd(h) ==
  IF \E g \in BlockStarts : g > h THEN Min({g \in BlockStarts : g > h}) ELSE Len(tags) + 1
\* the texts of the text tags among ts
RECURSIVE TextsOf(_)
TextsOf(ts) ==
  IF Len(ts) = 0 THEN <<>>
  ELSE (IF ts[1].name \in {"p", "div", "span", "li"} /\ Len(ts[1].text) > 0
        THEN <<ts[1].text>> ELSE <<>>) \o TextsOf(Tail(ts))
\* the lines of the block of heading h
LinesUnder(h) == TextsOf(SubSeq(tags, h + 1, BlockEnd(h) - 1))
\* s is t with some elements left out
RECURSIVE IsSubsequence(_, _)
IsSubsequence(s, t) ==
  IF Len(s) = 0 THEN TRUE
  ELSE IF Len(t) = 0 THEN FALSE
  ELSE IF s[1] = t[1] THEN IsSubsequence(Tail(s), Tail(t))
  ELSE IsSubsequence(s, Tail(t))
\* the series of the blocks' headings from h on, in their order
RECURSIVE SeriesFrom(_)
SeriesFrom(h) ==
  IF h > Len(tags) THEN <<>>
  ELSE (IF h \in BlockStarts THEN <<<<"I", "M", "F", "S", " ", "endash", " ">> \o tags[h].text>> ELSE <<>>)
       \o SeriesFrom(h + 1)

\* C3: the function never ends in the parser's exception, and returns one Event
\* for every block handed to the parser that the parser makes an Event of.
C3_FailuresIsolated ==
  /\ pc # "ValueError"
  /\ pc = "returned" =>
       Len(events) = Cardinality({k \in 1..Len(passed) :
         parse_imfs_block(passed[k].series_name, passed[k].lines).kind = "event"})

\* C5: every block handed to the parser has the text of a block's heading as its
\* label and that block's lines, no others, as its lines.
C5_BlockIsItsHeadingsLines ==
  \A k \in 1..Len(passed) :
    \E h \in BlockStarts :
      passed[k].series_name = tags[h].text /\ passed[k].lines = LinesUnder(h)

\* C9: when the function returns, the parser was called once for each block
\* that has a line, there are no more Events than blocks, and the Events are in
\* the order of their blocks' headings.
C9_EachBlockPassedOnce ==
  pc = "returned" =>
    /\ Len(passed) = Cardinality({h \in BlockStarts : Len(LinesUnder(h)) > 0})
    /\ Len(events) <= Cardinality(BlockStarts)
    /\ IsSubsequence([k \in 1..Len(events) |-> events[k].series], SeriesFrom(1))

====
